---- MODULE Spec2Model ----
(***************************************************************************)
(* Coordinator <-> worker subsystem of internal/fuzz (worker.go).          *)
(*                                                                         *)
(* Spec     : one worker client (coordinator process) talking to one       *)
(*            worker server (child process) over the fuzz_in / fuzz_out    *)
(*            pipes and the shared-memory region: workerClient.fuzz,       *)
(*            workerClient.minimize, workerServer.serve/fuzz/minimize.     *)
(* SpecStop : the supervisor's lifecycle of one child process:             *)
(*            worker.start, the waiter goroutine and worker.stop.          *)
(***************************************************************************)
EXTENDS Integers, Sequences, FiniteSets, TLC

(***************************************************************************)
(* Bounds of the model.                                                    *)
(***************************************************************************)
\* cap on header.count for calls with Limit = 0 (no limit)
MaxCount == 3
\* largest integer value of a fuzz argument
MaxVal == 2
\* largest length of a []byte / string fuzz argument
MaxBytes == 2
\* number of PRNG states
RngMod == 2
\* largest Limit argument of a call
MaxLimit == 2
\* calls of stop on one child process
MaxStops == 2
\* items coordinate takes from inputC and minimizeC
MaxIter == 2
\* calls of worker.cleanup
MaxCleanups == 2

Nil == "nil"

(***************************************************************************)
(* Typed values, corpus entries and their serialisation.                   *)
(***************************************************************************)
ByteSeqs == UNION {[1..n -> 0..1] : n \in 0..MaxBytes}

U8(n) == [t |-> "uint8", v |-> n]
Bytes(s) == [t |-> "bytes", v |-> s]
Str(s) == [t |-> "string", v |-> s]
Bool(b) == [t |-> "bool", v |-> b]

\* marshalCorpusFile: a version line followed by one line per value
EncodingHeader == "go test fuzz v1"
marshalCorpusFile(vals) ==
    <<EncodingHeader>> \o [i \in 1..Len(vals) |-> <<vals[i].t, vals[i].v>>]

\* unmarshalCorpusFile fails on data without the version line
unmarshalErr(b) == Len(b) = 0 \/ b[1] # EncodingHeader

\* unmarshalCorpusFile: the values of well-formed data
unmarshalCorpusFile(b) ==
    [i \in 1..(Len(b) - 1) |-> [t |-> b[i + 1][1], v |-> b[i + 1][2]]]

\* CorpusEntry.  Path stands for the content hash of Data.
CorpusEntry(parent, path, data, values, gen, seed) ==
    [Parent |-> parent, Path |-> path, Data |-> data, Values |-> values,
     Generation |-> gen, IsSeed |-> seed, bad |-> FALSE]

\* a nil byte slice
NoData == <<>>

NoEntry == CorpusEntry(<<>>, <<>>, NoData, <<>>, 0, FALSE)

\* sha256.Sum256(data), first four bytes in hex: a name determined by data
PathOf(data) == <<"sha256", data>>

\* The corpus entries the coordinator hands to the worker.  The last one is
\* an entry whose data cannot be read, so that CorpusEntryData fails.
Entries ==
    { CorpusEntry(<<>>, <<"a">>, NoData, <<U8(1)>>, 0, TRUE),
      CorpusEntry(<<"a">>, <<"b">>, NoData, <<U8(2), Bytes(<<1>>)>>, 1, FALSE),
      [CorpusEntry(<<>>, <<"x">>, NoData, <<>>, 0, FALSE) EXCEPT !.bad = TRUE] }

\* CorpusEntryData: the serialised input of an entry, and whether it fails
CorpusEntryDataErr(e) == e.bad

CorpusEntryData(e) ==
    IF Len(e.Data) > 0 THEN e.Data ELSE marshalCorpusFile(e.Values)

(***************************************************************************)
(* The mutator and its PRNG.  mutate is a deterministic function of the    *)
(* values and the PRNG state; it changes one value and advances the PRNG.  *)
(***************************************************************************)
RngStates == [state : 0..(RngMod - 1), inc : {1}]

RngNext(r) == [r EXCEPT !.state = (r.state * 3 + r.inc) % RngMod]

MutateValue(x, r) ==
    CASE x.t = "uint8" -> [x EXCEPT !.v = (x.v + 1 + r.state) % (MaxVal + 1)]
      [] x.t = "bool" -> [x EXCEPT !.v = ~x.v]
      [] OTHER ->
           IF Len(x.v) < MaxBytes
           THEN [x EXCEPT !.v = Append(x.v, r.state % 2)]
           ELSE [x EXCEPT !.v = Tail(x.v)]

\* mutate(vals, maxBytes) with PRNG r: <<new values, new PRNG>>
mutate(vals, r) ==
    IF Len(vals) = 0
    THEN <<vals, RngNext(r)>>
    ELSE LET i == (r.state % Len(vals)) + 1
         IN <<[vals EXCEPT ![i] = MutateValue(vals[i], r)], RngNext(r)>>

\* n successive mutations, as the client's replay loop applies them
RECURSIVE mutateN(_, _, _)
mutateN(vals, r, n) ==
    IF n <= 0 THEN vals
    ELSE LET m == mutate(vals, r) IN mutateN(m[1], m[2], n - 1)

(***************************************************************************)
(* RPC records.                                                            *)
(***************************************************************************)
\* coverage byte vectors are named by their length; Nil is the nil slice
CoverageMasks == {"cov8"}
CoverageLen(c) == IF c = "cov8" THEN 8 ELSE 16
\* the coverageSnapshot of the worker process
coverageSnapshot == "snapshot"

NoPing == [set |-> FALSE]
NoFuzz == [set |-> FALSE, Limit |-> 0, Warmup |-> FALSE, CoverageData |-> Nil]
NoMinimize == [set |-> FALSE, Limit |-> 0, KeepCoverage |-> Nil]

\* fuzzArgs and minimizeArgs the coordinator may pass
FuzzArgs == [set : {TRUE}, Limit : {0, 1, MaxLimit}, Warmup : BOOLEAN,
             CoverageData : {Nil} \cup CoverageMasks]
MinimizeArgs == [set : {TRUE}, Limit : {0, MaxLimit}, KeepCoverage : {Nil, "cov8"}]

\* call: exactly one of its fields is set by the client
call(ping, fuzz, minimize) == [Ping |-> ping, Fuzz |-> fuzz, Minimize |-> minimize]

\* fuzzResponse / minimizeResponse (durations are not modelled)
NoResp == [Success |-> FALSE, Err |-> "", CoverageData |-> Nil, Count |-> 0]

errSharedMemClosed == "internal error: shared memory was closed and unmapped"

(***************************************************************************)
(* State.                                                                  *)
(***************************************************************************)
VARIABLES
    mem,        \* the shared-memory region: header fields and the value
    cMemMu,     \* w.memMu in the coordinator process: "mem", "empty", "closed"
    sMemMu,     \* ws.memMu in the worker process: "mem", "empty"
    fuzzIn,     \* pipe coordinator -> worker: calls in flight
    fuzzOut,    \* pipe worker -> coordinator: responses in flight
    ctxDone,    \* the coordinator's context is cancelled
    wc,         \* workerClient: the running client method and its locals
    ws,         \* workerServer: position in serve/fuzz/minimize and its locals
    hist        \* history: what has been run so far

rpcVars == <<mem, cMemMu, sMemMu, fuzzIn, fuzzOut, ctxDone, wc, ws, hist>>

VARIABLES
    GOOS,       \* runtime.GOOS
    w,          \* worker: cmd, client, waitErr, interrupted, termC
    proc,       \* the child process and the goroutine that waits for it
    st,         \* worker.stop: its position and locals
    co          \* worker.coordinate: its position, locals and what it has sent

stopVars == <<GOOS, w, proc, st, co>>

\* the variables of the RPC layer that the supervisor does not touch
rpcRest == <<mem, sMemMu, fuzzIn, fuzzOut, wc, ws, hist>>

vars == <<rpcVars, stopVars>>

\* a call as the client sent it or the server handled it
Answer(method, args, margs) == [method |-> method, args |-> args, margs |-> margs]

NoAnswer == Answer("", NoFuzz, NoMinimize)

\* the number of fields of a call that are set
Variants(c) ==
    (IF c.Ping.set THEN 1 ELSE 0) + (IF c.Fuzz.set THEN 1 ELSE 0)
        + (IF c.Minimize.set THEN 1 ELSE 0)

\* Lines 483-490: "Exactly one of its fields must be set"
Framing(c) == IF Variants(c) = 1 THEN "one" ELSE IF Variants(c) = 0 THEN "zero" ELSE "many"

\* a freshly started worker process: newMutator() seeds the PRNG
NewServer(r) ==
    [pc |-> "serve", method |-> "", args |-> NoFuzz, margs |-> NoMinimize,
     vals |-> <<>>, resp |-> NoResp, r |-> r, coverageMask |-> Nil,
     ctxDone |-> FALSE,
     valI |-> 0, retErr |-> "", inMinimizer |-> FALSE,
     answered |-> NoAnswer,   \* the call whose response is in fuzz_out
     framed |-> "none",       \* Framing of the call being handled, or that ended serve
     serveErr |-> Nil,        \* the error serve returned
     decodeErr |-> Nil]       \* the error of dec.Decode that ended serve

IdleClient ==
    [pc |-> "idle", method |-> "", args |-> NoFuzz, margs |-> NoMinimize,
     entryIn |-> NoEntry, inp |-> NoData, callErr |-> Nil, resp |-> NoResp,
     entryOut |-> NoEntry, err |-> Nil, replayed |-> 0]

NoHist ==
    [fnCalls |-> 0,      \* calls of the fuzz function since the last reset of count
      muts |-> 0,        \* mutations the worker applied in the current call
     seenMuts |-> 0,     \* muts when the client last read the header
     seenVals |-> <<>>,  \* the worker's values when the client last read the header
     ran |-> <<>>,       \* the values of the most recent run of the fuzz function
     memo |-> <<>>,      \* minimize: the outcome of the fuzz function on each tested input
     minDone |-> FALSE,  \* minimize: minimizeInput has returned success
     endCount |-> 0,     \* header.count when the client method returned
     pending |-> 0,      \* calls written to this process whose response is unread
     runs |-> 0,         \* fuzz: runs of the fuzz function since the last mutation
     covRuns |-> 0,      \* fuzz: those of them that showed new coverage
     lastTry |-> <<>>,   \* minimize: the last call of tryMinimized, if any
     cancelCalls |-> <<>>]  \* fuzz: fnCalls when the loop saw its context done, if it did

InitRpc ==
    /\ mem = [count |-> 0, value |-> NoData, randState |-> 0, randInc |-> 1]
    /\ cMemMu = "mem"
    /\ sMemMu = "mem"
    /\ fuzzIn = <<>>
    /\ fuzzOut = <<>>
    /\ ctxDone = FALSE
    /\ wc = IdleClient
    /\ \E r \in RngStates : ws = NewServer(r)
    /\ hist = NoHist

\* the worker before start, and with no stop in progress
NoWorker == [cmd |-> FALSE, client |-> FALSE, waitErr |-> Nil,
             interrupted |-> FALSE, termC |-> "nil",
             cleanup |-> "idle",  \* a call of cleanup: "idle", or "close" after its receive
             cleanups |-> 0,      \* calls of cleanup that have returned
             memCloses |-> 0]     \* calls of close(w.memMu) and mem.Close()

NoProc ==
    [state |-> "none",       \* "none", "running", "terminated", "waited"
     exitErr |-> Nil,        \* what cmd.Wait returns for it
     fuzzInClosed |-> FALSE, \* the coordinator's end of fuzz_in is closed
     closes |-> 0,           \* calls of client.Close on this process's client
     stops |-> 0,            \* calls of stop on this process
     waiter |-> "none",      \* the goroutine of lines 372-375: "wait", "close", "done"
     termCloses |-> 0]       \* calls of close(w.termC) by that goroutine

IdleStop ==
    [pc |-> "idle", sig |-> Nil, timer |-> FALSE, closeC |-> "nil", ret |-> Nil,
     sent |-> <<>>,          \* the signals sent by this call of stop
     fired |-> 0,            \* the timeouts of this call of stop
     logged |-> 0]           \* the "waiting ..." lines this call has logged

\* errors and messages are sequences of strings: <<>> is nil (or ""), <<e>> is
\* the error e, <<m, e>> is fmt.Errorf(m + ": %w", e)
NoErr == <<>>

NoItem == [kind |-> "none", crasherMsg |-> NoErr, bad |-> FALSE, deadline |-> FALSE]

NoResult == [set |-> FALSE, crasherMsg |-> NoErr, canMinimize |-> FALSE, fromInput |-> FALSE]

\* coordinate before its first iteration
NoCo ==
    [pc |-> "top",
     item |-> NoItem,       \* the input taken from inputC or minimizeC
     err |-> Nil,           \* the error of the client method that failed
     respErr |-> NoErr,     \* resp.Err of the call
     ret |-> NoErr,         \* what coordinate returned
     result |-> NoResult,   \* what this iteration sent on resultC
     why |-> "",            \* the branch that ended the iteration
     ctx |-> FALSE,         \* ctx.Err() # nil as that branch read it
     iter |-> 0,            \* items taken so far
     starts |-> 0,          \* processes started so far
     restartOf |-> ""]      \* while pinging: the branch that ended the iteration before the start

InitStopVars ==
    /\ w = NoWorker
    /\ proc = NoProc
    /\ st = IdleStop
    /\ co = NoCo

\* the RPC layer is checked on one platform, with the supervisor at rest
Init == InitRpc /\ GOOS = "linux" /\ InitStopVars

\* sharedMem.setValue
setValue(m, b) == [m EXCEPT !.value = b]

ServerAlive == ws.pc \notin {"dead", "exited"}

(***************************************************************************)
(* workerClient.fuzz and workerClient.minimize, up to the call being sent. *)
(***************************************************************************)
\* Lines 1052-1065 / 1007-1020: take the permit, reset count, write the
\* input, put the permit back, encode the call on fuzz_in.
ClientSend(method, entryIn, c) ==
    /\ wc.pc = "idle"
    /\ cMemMu \in {"mem", "closed"}
    /\ hist' = [NoHist EXCEPT !.pending = IF ~CorpusEntryDataErr(entryIn) /\ ServerAlive
                                             /\ cMemMu = "mem"
                                          THEN hist.pending + 1 ELSE hist.pending]
    /\ IF cMemMu = "closed"
       THEN \* Lines 1053-1055: the receive reports a closed slot
            /\ wc' = [IdleClient EXCEPT !.pc = "returned", !.method = method,
                                        !.entryIn = entryIn, !.err = errSharedMemClosed]
            /\ UNCHANGED <<mem, cMemMu, fuzzIn>>
       ELSE IF CorpusEntryDataErr(entryIn)
       THEN \* returns with the permit still taken
            /\ mem' = [mem EXCEPT !.count = 0]
            /\ cMemMu' = "empty"
            /\ wc' = [IdleClient EXCEPT !.pc = "returned", !.method = method,
                                        !.entryIn = entryIn, !.err = "CorpusEntryData"]
            /\ UNCHANGED fuzzIn
       ELSE LET inp == CorpusEntryData(entryIn)
                sent == [IdleClient EXCEPT !.method = method, !.entryIn = entryIn,
                                           !.args = c.Fuzz, !.margs = c.Minimize,
                                           !.inp = inp]
            IN /\ mem' = setValue([mem EXCEPT !.count = 0], inp)
               /\ cMemMu' = "mem"
               /\ IF ServerAlive
                  THEN /\ fuzzIn' = Append(fuzzIn, c)
                       /\ wc' = [sent EXCEPT !.pc = "waiting"]
                  ELSE \* Encode fails: the read end of fuzz_in is gone
                       /\ UNCHANGED fuzzIn
                       /\ wc' = [sent EXCEPT !.pc = "called", !.callErr = "EPIPE"]
    /\ UNCHANGED <<stopVars, sMemMu, fuzzOut, ctxDone, ws>>

ClientFuzz ==
    \E e \in Entries, a \in FuzzArgs :
        ClientSend("fuzz", e, call(NoPing, a, NoMinimize))

ClientMinimize ==
    \E e \in Entries, a \in MinimizeArgs :
        ClientSend("minimize", e, call(NoPing, NoFuzz, a))

(***************************************************************************)
(* workerClient.callLocked: the three ways Decode returns.                 *)
(***************************************************************************)
\* a response is read from fuzz_out
ClientRecv ==
    /\ wc.pc = "waiting"
    /\ Len(fuzzOut) > 0
    /\ wc' = [wc EXCEPT !.pc = "called", !.callErr = Nil, !.resp = Head(fuzzOut)]
    /\ fuzzOut' = Tail(fuzzOut)
    /\ hist' = [hist EXCEPT !.pending = @ - 1]
    /\ ws' = [ws EXCEPT !.answered = NoAnswer]
    /\ UNCHANGED <<stopVars, mem, cMemMu, sMemMu, fuzzIn, ctxDone>>

\* contextReader.Read returns ctx.Err()
ClientCtxErr ==
    /\ wc.pc = "waiting"
    /\ ctxDone
    /\ wc' = [wc EXCEPT !.pc = "called", !.callErr = "context canceled"]
    /\ UNCHANGED <<stopVars, mem, cMemMu, sMemMu, fuzzIn, fuzzOut, ctxDone, ws, hist>>

\* the worker process is gone and fuzz_out is drained: EOF
ClientEOF ==
    /\ wc.pc = "waiting"
    /\ ~ServerAlive
    /\ Len(fuzzOut) = 0
    /\ wc' = [wc EXCEPT !.pc = "called", !.callErr = "EOF"]
    /\ UNCHANGED <<stopVars, mem, cMemMu, sMemMu, fuzzIn, fuzzOut, ctxDone, ws, hist>>

\* Lines 1066-1069 / 1021-1024: mem, ok = <-wc.memMu
ClientReacquire ==
    /\ wc.pc = "called"
    /\ wc.method # "ping"
    /\ cMemMu # "empty"
    /\ IF cMemMu = "closed"
       THEN /\ wc' = [wc EXCEPT !.pc = "returned", !.resp = NoResp,
                                !.entryOut = NoEntry, !.err = errSharedMemClosed]
            /\ UNCHANGED cMemMu
       ELSE /\ wc' = [wc EXCEPT !.pc = "holding"]
            /\ cMemMu' = "empty"
    /\ UNCHANGED <<stopVars, mem, sMemMu, fuzzIn, fuzzOut, ctxDone, ws, hist>>

(***************************************************************************)
(* workerClient.fuzz and workerClient.minimize after the call.             *)
(***************************************************************************)
\* Lines 1070 / 1025: wc.memMu <- mem.  A send on a closed channel panics.
memMuSend(slot) == IF slot = "closed" THEN "faulted" ELSE "mem"

\* Lines 1071 / 1026: resp.Count = mem.header().count
ClientReadCount ==
    /\ wc.pc = "holding"
    /\ wc' = [wc EXCEPT !.pc = "counted", !.resp.Count = mem.count]
    /\ UNCHANGED <<stopVars, mem, cMemMu, sMemMu, fuzzIn, fuzzOut, ctxDone, ws, hist>>

\* a replay loop that does not look at Warmup
ReplayCount_warmupToo(warmup, count) == count

\* Lines 1084-1089: the number of mutations the client replays
ReplayCount(warmup, count) == IF warmup THEN 0 ELSE count

\* Lines 1073-1107, holding the permit: check the input, rebuild the values
\* that were run last (the loop reads header.count), put the permit back.
ClientFuzzFinish ==
    /\ wc.pc = "counted"
    /\ wc.method = "fuzz"
    /\ LET resp == wc.resp
           needEntryOut == \/ wc.callErr # Nil
                           \/ resp.Err # ""
                           \/ (~wc.args.Warmup /\ resp.CoverageData # Nil)
           n == ReplayCount(wc.args.Warmup, mem.count)
           valuesOut == mutateN(unmarshalCorpusFile(wc.inp),
                                [state |-> mem.randState, inc |-> mem.randInc], n)
           dataOut == marshalCorpusFile(valuesOut)
           entryOut == CorpusEntry(wc.entryIn.Path, PathOf(dataOut), dataOut, <<>>,
                                   wc.entryIn.Generation + 1,
                                   wc.args.Warmup /\ wc.entryIn.IsSeed)
       IN IF wc.inp # mem.value
          THEN wc' = [wc EXCEPT !.pc = "panic", !.resp = resp,
                                !.err = "workerServer.fuzz modified input"]
          ELSE IF needEntryOut /\ unmarshalErr(wc.inp)
          THEN wc' = [wc EXCEPT !.pc = "panic", !.resp = resp,
                                !.err = "unmarshaling fuzz input value after call"]
          ELSE wc' = [wc EXCEPT !.pc = "returned", !.resp = resp,
                                !.entryOut = IF needEntryOut THEN entryOut ELSE NoEntry,
                                !.replayed = IF needEntryOut THEN n ELSE 0,
                                !.err = wc.callErr]
    /\ cMemMu' = memMuSend(cMemMu)
    /\ hist' = [hist EXCEPT !.endCount = mem.count,
                            !.seenMuts = hist.muts,
                            !.seenVals = IF hist.fnCalls > 0 THEN hist.ran
                                         ELSE unmarshalCorpusFile(wc.inp)]
    /\ UNCHANGED <<stopVars, mem, sMemMu, fuzzIn, fuzzOut, ctxDone, ws>>

\* Lines 1027-1044, holding the permit.
ClientMinimizeFinish ==
    /\ wc.pc = "counted"
    /\ wc.method = "minimize"
    /\ LET resp == wc.resp
           data == mem.value
           entryOut == CorpusEntry(wc.entryIn.Parent, PathOf(data), data,
                                   unmarshalCorpusFile(data),
                                   wc.entryIn.Generation, FALSE)
       IN IF resp.Success /\ unmarshalErr(data)
          THEN wc' = [wc EXCEPT !.pc = "panic", !.resp = resp,
                                !.err = "workerClient.minimize unmarshaling minimized value"]
          ELSE wc' = [wc EXCEPT !.pc = "returned", !.resp = resp,
                                !.entryOut = IF resp.Success THEN entryOut ELSE wc.entryIn,
                                !.err = wc.callErr]
    /\ cMemMu' = memMuSend(cMemMu)
    /\ hist' = [hist EXCEPT !.endCount = mem.count]
    /\ UNCHANGED <<stopVars, mem, sMemMu, fuzzIn, fuzzOut, ctxDone, ws>>

(***************************************************************************)
(* The caller of the client (worker.coordinate / worker.minimize) and the  *)
(* environment of the call.                                                *)
(***************************************************************************)
\* a caller that goes on with the same process after a failed call
callFailed_never(err) == FALSE

\* Lines 156, 242, 299: if err != nil
callFailed(err) == err # Nil

\* Lines 192-202, 222: the call succeeded, the result is handed over and the
\* loop takes the next item.
CoordinateResult ==
    /\ wc.pc = "returned"
    /\ ~callFailed(wc.err)
    /\ wc' = IdleClient
    /\ hist' = [NoHist EXCEPT !.fnCalls = hist.fnCalls, !.pending = hist.pending]
    /\ UNCHANGED <<stopVars, mem, cMemMu, sMemMu, fuzzIn, fuzzOut, ctxDone, ws>>

\* Lines 158-160, 244-246: the call failed, w.stop() ends the process.
CoordinateStop ==
    /\ wc.pc = "returned"
    /\ callFailed(wc.err)
    /\ wc' = [wc EXCEPT !.pc = "stopped"]
    /\ ws' = [ws EXCEPT !.pc = IF ServerAlive THEN "dead" ELSE @]
    /\ fuzzIn' = <<>>
    /\ fuzzOut' = <<>>
    /\ UNCHANGED <<stopVars, mem, cMemMu, sMemMu, ctxDone, hist>>

\* Lines 104-108: the next iteration starts a new process unless the
\* context is cancelled; the region and w.memMu persist.
CoordinateRestart ==
    /\ wc.pc = "stopped"
    /\ ~ctxDone
    /\ wc' = IdleClient
    /\ \E r \in RngStates : ws' = NewServer(r)
    /\ sMemMu' = "mem"
    /\ hist' = [NoHist EXCEPT !.fnCalls = hist.fnCalls]
    /\ UNCHANGED <<stopVars, mem, cMemMu, fuzzIn, fuzzOut, ctxDone>>

\* the coordinator cancels the context
CtxCancel ==
    /\ ~ctxDone
    /\ ctxDone' = TRUE
    /\ UNCHANGED <<stopVars, mem, cMemMu, sMemMu, fuzzIn, fuzzOut, wc, ws, hist>>

\* the worker process terminates: a crash or exit inside the fuzz
\* function, a panic, a signal
ProcTerminate ==
    /\ ServerAlive
    /\ ws' = [ws EXCEPT !.pc = "dead"]
    /\ UNCHANGED <<stopVars, mem, cMemMu, sMemMu, fuzzIn, fuzzOut, ctxDone, wc, hist>>

(***************************************************************************)
(* workerServer.fuzz.                                                      *)
(***************************************************************************)
\* what one run of the fuzz function can do
Outcomes == {"ok", "cov", "err"}

\* a limit check that never stops the loop
shouldStop_never(m, limit) == FALSE

\* Lines 694-696
shouldStop(m, limit) == limit > 0 /\ m.count >= limit

\* a loop that reports new coverage without a second run
deflakeNeeded_never(m, limit) == FALSE

\* Line 744: if !shouldStop() before the second run
deflakeNeeded(m, limit) == ~shouldStop(m, limit)

\* a fuzzOnce that stores the entry it is about to run in shared memory
fuzzOnce_writesEntry(m, entry) ==
    [m EXCEPT !.count = @ + 1, !.value = marshalCorpusFile(entry)]

\* Line 698: fuzzOnce increments the counter and leaves the value alone
fuzzOnce(m, entry) == [m EXCEPT !.count = @ + 1]

\* Lines 700-712: what fuzzOnce returns for an outcome of the fuzz function
fuzzOnceResult(out, coverageMask) ==
    [errMsg |-> IF out = "err" THEN "boom" ELSE "",
     cov |-> IF out = "cov" /\ coverageMask # Nil THEN coverageSnapshot ELSE Nil]

InCall == ws.pc \in {"warmup", "loop", "deflake", "ret", "min", "shrink", "mwrite", "mret"}

\* the worker's context expires (args.Timeout, or its parent is cancelled)
SrvCtxDone ==
    /\ InCall
    /\ ~ws.ctxDone
    /\ ws' = [ws EXCEPT !.ctxDone = TRUE]
    /\ UNCHANGED <<stopVars, mem, cMemMu, sMemMu, fuzzIn, fuzzOut, ctxDone, wc, hist>>

\* Lines 627-638, 665-692: decode a Fuzz call and run the preamble of fuzz.
SrvFuzzBegin ==
    /\ ws.pc = "serve"
    /\ Len(fuzzIn) > 0
    /\ Head(fuzzIn).Fuzz.set
    /\ LET args == Head(fuzzIn).Fuzz
           badSize == /\ args.CoverageData # Nil
                      /\ ws.coverageMask # Nil
                      /\ CoverageLen(args.CoverageData) # CoverageLen(ws.coverageMask)
           mask == IF args.CoverageData # Nil THEN args.CoverageData ELSE ws.coverageMask
       IN IF badSize
          THEN \* panic: unexpected size for CoverageData
               /\ ws' = [ws EXCEPT !.pc = "dead", !.framed = Framing(Head(fuzzIn))]
               /\ UNCHANGED <<mem, sMemMu>>
          ELSE /\ sMemMu = "mem"
               /\ sMemMu' = "empty"
               /\ mem' = [mem EXCEPT !.randState = ws.r.state, !.randInc = ws.r.inc]
               /\ IF shouldStop(mem, args.Limit) \/ unmarshalErr(mem.value)
                  THEN \* panic
                       ws' = [ws EXCEPT !.pc = "dead", !.coverageMask = mask,
                                        !.framed = Framing(Head(fuzzIn))]
                  ELSE ws' = [ws EXCEPT !.pc = IF args.Warmup THEN "warmup" ELSE "loop",
                                        !.framed = Framing(Head(fuzzIn)),
                                        !.method = "fuzz", !.args = args,
                                        !.coverageMask = mask, !.resp = NoResp,
                                        !.ctxDone = FALSE,
                                        !.vals = unmarshalCorpusFile(mem.value)]
    /\ fuzzIn' = Tail(fuzzIn)
    /\ UNCHANGED <<stopVars, cMemMu, fuzzOut, ctxDone, wc, hist>>

\* Lines 715-726: warmup runs the fuzz function once on the original values.
SrvFuzzWarmup ==
    /\ ws.pc = "warmup"
    /\ \E out \in Outcomes, coverageEnabled \in BOOLEAN :
         LET res == fuzzOnceResult(out, ws.coverageMask)
         IN /\ mem' = fuzzOnce(mem, ws.vals)
            /\ hist' = [hist EXCEPT !.fnCalls = @ + 1,
                                    !.ran = ws.vals]
            /\ ws' = [ws EXCEPT !.pc = "ret",
                        !.resp = IF res.errMsg # ""
                                 THEN [@ EXCEPT !.Err = res.errMsg]
                                 ELSE [@ EXCEPT !.CoverageData =
                                         IF coverageEnabled THEN coverageSnapshot ELSE Nil]]
    /\ UNCHANGED <<stopVars, cMemMu, sMemMu, fuzzIn, fuzzOut, ctxDone, wc>>

\* Lines 729-731: the context is done at the top of the loop.
SrvFuzzCancelled ==
    /\ ws.pc = "loop"
    /\ ws.ctxDone
    /\ ws' = [ws EXCEPT !.pc = "ret"]
    /\ hist' = [hist EXCEPT !.cancelCalls = <<hist.fnCalls>>]
    /\ UNCHANGED <<stopVars, mem, cMemMu, sMemMu, fuzzIn, fuzzOut, ctxDone, wc>>

\* Lines 733-760, first run of an iteration: mutate, run, classify.
SrvFuzzIter ==
    /\ ws.pc = "loop"
    /\ ~ws.ctxDone
    /\ mem.count + 2 <= MaxCount
    /\ \E out \in Outcomes :
         LET m == mutate(ws.vals, ws.r)
             res == fuzzOnceResult(out, ws.coverageMask)
             mem1 == fuzzOnce(mem, m[1])
         IN /\ mem' = mem1
            /\ hist' = [hist EXCEPT !.fnCalls = @ + 1, !.muts = @ + 1,
                                    !.ran = m[1], !.runs = 1,
                                    !.covRuns = IF res.cov # Nil THEN 1 ELSE 0]
            /\ ws' = [ws EXCEPT
                        !.vals = m[1], !.r = m[2],
                        !.pc = CASE res.errMsg # "" -> "ret"
                                 [] res.errMsg = "" /\ res.cov # Nil ->
                                      IF deflakeNeeded(mem1, ws.args.Limit)
                                      THEN "deflake" ELSE "ret"
                                 [] OTHER ->
                                      IF shouldStop(mem1, ws.args.Limit)
                                      THEN "ret" ELSE "loop",
                        !.resp = CASE res.errMsg # "" -> [@ EXCEPT !.Err = res.errMsg]
                                   [] res.errMsg = "" /\ res.cov # Nil
                                        /\ ~deflakeNeeded(mem1, ws.args.Limit) ->
                                        [@ EXCEPT !.CoverageData = res.cov]
                                   [] OTHER -> @]
    /\ UNCHANGED <<stopVars, cMemMu, sMemMu, fuzzIn, fuzzOut, ctxDone, wc>>

\* Lines 741-759: the same values are run once more to deflake.
SrvFuzzDeflake ==
    /\ ws.pc = "deflake"
    /\ \E out \in Outcomes :
         LET res == fuzzOnceResult(out, ws.coverageMask)
             mem1 == fuzzOnce(mem, ws.vals)
         IN /\ mem' = mem1
            /\ hist' = [hist EXCEPT !.fnCalls = @ + 1,
                                    !.ran = ws.vals, !.runs = @ + 1,
                                    !.covRuns = IF res.cov # Nil THEN @ + 1 ELSE @]
            /\ ws' = [ws EXCEPT
                        !.pc = IF res.errMsg # "" \/ res.cov # Nil
                                  \/ shouldStop(mem1, ws.args.Limit)
                               THEN "ret" ELSE "loop",
                        !.resp = CASE res.errMsg # "" -> [@ EXCEPT !.Err = res.errMsg]
                                   [] res.errMsg = "" /\ res.cov # Nil ->
                                        [@ EXCEPT !.CoverageData = res.cov]
                                   [] OTHER -> @]
    /\ UNCHANGED <<stopVars, cMemMu, sMemMu, fuzzIn, fuzzOut, ctxDone, wc>>

\* Lines 681-684, 647: the deferred function stores count and puts the
\* permit back; serve encodes the response on fuzz_out.
SrvFuzzReturn ==
    /\ ws.pc = "ret"
    /\ ws' = [NewServer(ws.r) EXCEPT !.coverageMask = ws.coverageMask,
                                     !.answered = Answer(ws.method, ws.args, ws.margs)]
    /\ fuzzOut' = Append(fuzzOut, [ws.resp EXCEPT !.Count = mem.count])
    /\ sMemMu' = "mem"
    /\ UNCHANGED <<stopVars, mem, cMemMu, fuzzIn, ctxDone, wc, hist>>

(***************************************************************************)
(* workerServer.minimize and minimizeInput.                                *)
(***************************************************************************)
\* Lines 802-806
minShouldStop(ctxErr, count, limit, retErr, wantError) ==
    \/ ctxErr
    \/ (limit > 0 /\ count >= limit)
    \/ (retErr # "" /\ ~wantError)

\* what one run of the fuzz function can do under minimize: "cov" is a run
\* without error that sets a bit of KeepCoverage.  The function is
\* deterministic: an input that was run before gives the same outcome.
MinOutcomes(vals, wantError) ==
    IF vals \in DOMAIN hist.memo THEN {hist.memo[vals]}
    ELSE IF wantError THEN {"ok", "err"} ELSE {"ok", "cov", "err"}

Remember(vals, out) ==
    [v \in (DOMAIN hist.memo) \cup {vals} |-> IF v = vals THEN out ELSE hist.memo[v]]

\* Lines 945-948
writeToMem(vals, m) == setValue(m, marshalCorpusFile(vals))

\* Lines 833-879: the candidate cast to the type of the value it replaces
castCandidate(c, prev) ==
    CASE c.k = "uint" /\ prev.t = "uint8" -> U8(c.v % 256)
      [] c.k = "[]byte" /\ prev.t = "bytes" -> Bytes(c.v)
      [] c.k = "[]byte" /\ prev.t = "string" -> Str(c.v)

\* a tryMinimized that keeps the candidate whatever the run showed
tryMinimized_noRestore(vals, valI, candidate, out, retErr, wantError, keepCoverage) ==
    [vals |-> [vals EXCEPT ![valI] = castCandidate(candidate, vals[valI])],
     retErr |-> IF out = "err" THEN "boom" ELSE retErr,
     ok |-> IF out = "err" THEN wantError ELSE keepCoverage # Nil /\ out = "cov"]

\* Lines 828-891: tryMinimized for the outcome out of the fuzz function:
\* the values and retErr it leaves, and what it returns
tryMinimized(vals, valI, candidate, out, retErr, wantError, keepCoverage) ==
    LET prev == vals[valI]
        tried == [vals EXCEPT ![valI] = castCandidate(candidate, prev)]
    IN IF out = "err"
       THEN [vals |-> tried, retErr |-> "boom", ok |-> wantError]
       ELSE IF keepCoverage # Nil /\ out = "cov"
       THEN [vals |-> tried, retErr |-> retErr, ok |-> TRUE]
       ELSE [vals |-> [tried EXCEPT ![valI] = prev], retErr |-> retErr, ok |-> FALSE]

\* the candidates minimizeInteger and minimizeBytes may propose for a value:
\* values of the minimizer's input type that are not larger
Candidates(x) ==
    CASE x.t = "uint8" -> {[k |-> "uint", v |-> n] : n \in 0..(x.v - 1)}
      [] x.t \in {"bytes", "string"} ->
           {[k |-> "[]byte", v |-> b] : b \in {c \in ByteSeqs : Len(c) <= Len(x.v) /\ c # x.v}}
      [] OTHER -> {}

\* Lines 767-777: decode a Minimize call, take the permit, read the values.
SrvMinimizeBegin ==
    /\ ws.pc = "serve"
    /\ Len(fuzzIn) > 0
    /\ ~Head(fuzzIn).Fuzz.set
    /\ Head(fuzzIn).Minimize.set
    /\ sMemMu = "mem"
    /\ sMemMu' = "empty"
    /\ ws' = IF unmarshalErr(mem.value)
             THEN [ws EXCEPT !.pc = "dead", !.framed = Framing(Head(fuzzIn))]
             ELSE [ws EXCEPT !.pc = "min", !.method = "minimize",
                             !.framed = Framing(Head(fuzzIn)),
                             !.margs = Head(fuzzIn).Minimize, !.resp = NoResp,
                             !.ctxDone = FALSE, !.retErr = "",
                             !.vals = unmarshalCorpusFile(mem.value)]
    /\ fuzzIn' = Tail(fuzzIn)
    /\ UNCHANGED <<stopVars, mem, cMemMu, fuzzOut, ctxDone, wc, hist>>

\* Lines 801-821: minimizeInput checks that the original values are still
\* interesting.
SrvMinimizeVerify ==
    /\ ws.pc = "min"
    /\ LET wantError == ws.margs.KeepCoverage = Nil
       IN IF minShouldStop(ws.ctxDone, mem.count, ws.margs.Limit, ws.retErr, wantError)
          THEN /\ ws' = [ws EXCEPT !.pc = "mwrite", !.resp = [@ EXCEPT !.Success = FALSE]]
               /\ UNCHANGED <<mem, hist>>
          ELSE \E out \in MinOutcomes(ws.vals, wantError) :
                 /\ mem' = [mem EXCEPT !.count = @ + 1]
                 /\ hist' = [hist EXCEPT !.fnCalls = @ + 1, !.ran = ws.vals,
                                         !.memo = Remember(ws.vals, out)]
                 /\ ws' = CASE out = "err" /\ wantError ->
                                 [ws EXCEPT !.pc = "shrink", !.retErr = "boom",
                                            !.valI = 1, !.inMinimizer = FALSE]
                            [] out = "err" /\ ~wantError ->
                                 [ws EXCEPT !.pc = "mwrite", !.retErr = "boom",
                                            !.resp = [@ EXCEPT !.Success = FALSE]]
                            [] out = "cov" /\ ~wantError ->
                                 [ws EXCEPT !.pc = "shrink", !.valI = 1,
                                            !.inMinimizer = FALSE]
                            [] OTHER ->
                                 [ws EXCEPT !.pc = "mwrite",
                                            !.resp = [@ EXCEPT !.Success = FALSE]]
    /\ UNCHANGED <<stopVars, cMemMu, sMemMu, fuzzIn, fuzzOut, ctxDone, wc>>

\* Lines 893-942: the head of the loop over the values, and the return of
\* minimizeInput after it.
SrvMinimizeLoop ==
    /\ ws.pc = "shrink"
    /\ ~ws.inMinimizer
    /\ LET wantError == ws.margs.KeepCoverage = Nil
           stop == minShouldStop(ws.ctxDone, mem.count, ws.margs.Limit, ws.retErr, wantError)
       IN IF ws.valI > Len(ws.vals) \/ stop
          THEN ws' = [ws EXCEPT !.pc = "mwrite",
                                !.resp = [@ EXCEPT !.Success = (wantError \/ ws.retErr = "")]]
          ELSE IF ws.vals[ws.valI].t = "bool"
          THEN ws' = [ws EXCEPT !.valI = @ + 1]
          ELSE ws' = [ws EXCEPT !.inMinimizer = TRUE]
    /\ UNCHANGED <<stopVars, mem, cMemMu, sMemMu, fuzzIn, fuzzOut, ctxDone, wc, hist>>

\* minimizeInteger / minimizeBytes propose a candidate: lines 828-891.
SrvTryMinimized ==
    /\ ws.pc = "shrink"
    /\ ws.inMinimizer
    /\ mem.count < MaxCount
    /\ LET wantError == ws.margs.KeepCoverage = Nil
       IN /\ ~minShouldStop(ws.ctxDone, mem.count, ws.margs.Limit, ws.retErr, wantError)
          /\ \E c \in Candidates(ws.vals[ws.valI]) :
               LET tried == [ws.vals EXCEPT ![ws.valI] = castCandidate(c, ws.vals[ws.valI])]
               IN \E out \in MinOutcomes(tried, wantError) :
                    LET res == tryMinimized(ws.vals, ws.valI, c, out, ws.retErr,
                                            wantError, ws.margs.KeepCoverage)
                    IN /\ mem' = [mem EXCEPT !.count = @ + 1]
                       /\ hist' = [hist EXCEPT !.fnCalls = @ + 1, !.ran = tried,
                                               !.memo = Remember(tried, out),
                                               !.lastTry = <<[prev |-> ws.vals[ws.valI],
                                                              cand |-> tried[ws.valI],
                                                              out |-> out,
                                                              ok |-> res.ok,
                                                              after |-> res.vals[ws.valI]]>>]
                       /\ ws' = [ws EXCEPT !.vals = res.vals, !.retErr = res.retErr]
    /\ UNCHANGED <<stopVars, cMemMu, sMemMu, fuzzIn, fuzzOut, ctxDone, wc>>

\* the minimizer of the current value returns
SrvMinimizerReturn ==
    /\ ws.pc = "shrink"
    /\ ws.inMinimizer
    /\ ws' = [ws EXCEPT !.inMinimizer = FALSE, !.valI = @ + 1]
    /\ UNCHANGED <<stopVars, mem, cMemMu, sMemMu, fuzzIn, fuzzOut, ctxDone, wc, hist>>

\* a minimize that writes the values whatever minimizeInput returned
minimizeMem_always(m, success, vals) == writeToMem(vals, m)

\* Lines 783-785: the values are written to shared memory on success only
minimizeMem(m, success, vals) == IF success THEN writeToMem(vals, m) ELSE m

\* Lines 782-790: minimizeInput has returned.
SrvMinimizeWrite ==
    /\ ws.pc = "mwrite"
    /\ mem' = minimizeMem(mem, ws.resp.Success, ws.vals)
    /\ ws' = [ws EXCEPT !.pc = "mret",
                !.resp = IF ws.retErr # "" THEN [@ EXCEPT !.Err = ws.retErr]
                         ELSE IF ws.resp.Success
                         THEN [@ EXCEPT !.CoverageData = coverageSnapshot]
                         ELSE @]
    /\ hist' = [hist EXCEPT !.minDone = ws.resp.Success]
    /\ UNCHANGED <<stopVars, cMemMu, sMemMu, fuzzIn, fuzzOut, ctxDone, wc>>

\* Lines 768, 791, 647: the permit is put back and the response encoded.
SrvMinimizeReturn ==
    /\ ws.pc = "mret"
    /\ ws' = [NewServer(ws.r) EXCEPT !.coverageMask = ws.coverageMask,
                                     !.answered = Answer(ws.method, ws.args, ws.margs)]
    /\ fuzzOut' = Append(fuzzOut, ws.resp)
    /\ sMemMu' = "mem"
    /\ UNCHANGED <<stopVars, mem, cMemMu, fuzzIn, ctxDone, wc, hist>>

(***************************************************************************)
(* ping, and the default case of the dispatch in serve.                    *)
(***************************************************************************)
\* Lines 1111-1116, 1121-1126: ping encodes its call on fuzz_in
ClientPing ==
    /\ wc.pc = "idle"
    /\ IF ServerAlive
       THEN /\ fuzzIn' = Append(fuzzIn, call([set |-> TRUE], NoFuzz, NoMinimize))
            /\ wc' = [IdleClient EXCEPT !.method = "ping", !.pc = "waiting"]
            /\ hist' = [hist EXCEPT !.pending = @ + 1]
       ELSE /\ wc' = [IdleClient EXCEPT !.method = "ping", !.pc = "called",
                                        !.callErr = "EPIPE"]
            /\ UNCHANGED <<fuzzIn, hist>>
    /\ UNCHANGED <<stopVars, mem, cMemMu, sMemMu, fuzzOut, ctxDone, ws>>

\* Line 1116: ping returns what callLocked returned
ClientPingFinish ==
    /\ wc.pc = "called"
    /\ wc.method = "ping"
    /\ wc' = [wc EXCEPT !.pc = "returned", !.err = wc.callErr]
    /\ UNCHANGED <<stopVars, mem, cMemMu, sMemMu, fuzzIn, fuzzOut, ctxDone, ws, hist>>

\* Lines 627-648: decode a Ping call, run ping, encode the response
SrvPing ==
    /\ ws.pc = "serve"
    /\ Len(fuzzIn) > 0
    /\ ~Head(fuzzIn).Fuzz.set
    /\ ~Head(fuzzIn).Minimize.set
    /\ Head(fuzzIn).Ping.set
    /\ fuzzIn' = Tail(fuzzIn)
    /\ fuzzOut' = Append(fuzzOut, NoResp)
    /\ ws' = [ws EXCEPT !.answered = Answer("ping", NoFuzz, NoMinimize)]
    /\ UNCHANGED <<stopVars, mem, cMemMu, sMemMu, ctxDone, wc, hist>>

NextPing ==
    \/ ClientPing
    \/ ClientPingFinish
    \/ SrvPing

\* Lines 642-643: default: return errors.New("no arguments provided for any call")
SrvNoArgs ==
    /\ ws.pc = "serve"
    /\ Len(fuzzIn) > 0
    /\ ~Head(fuzzIn).Fuzz.set
    /\ ~Head(fuzzIn).Minimize.set
    /\ ~Head(fuzzIn).Ping.set
    /\ fuzzIn' = Tail(fuzzIn)
    /\ ws' = [ws EXCEPT !.pc = "exited", !.framed = Framing(Head(fuzzIn)),
                        !.serveErr = "no arguments provided for any call"]
    /\ UNCHANGED <<stopVars, mem, cMemMu, sMemMu, fuzzOut, ctxDone, wc, hist>>

\* what ctx.Err() returns after cancellation
ctxErr == "context canceled"

\* a serve that returns every error of Decode
serveReturn_every(err) == err

\* Lines 626-632: what serve returns when Decode fails with err
serveReturn(err) == IF err = "EOF" \/ err = ctxErr THEN Nil ELSE err

\* Lines 625-633: Decode fails: fuzz_in is at its end, the context of the
\* process is cancelled, or the bytes read are no call
SrvDecodeFails ==
    /\ ws.pc = "serve"
    /\ Len(fuzzIn) = 0
    /\ \E e \in {"EOF", ctxErr, "invalid character"} :
         ws' = [ws EXCEPT !.pc = "exited", !.decodeErr = e, !.serveErr = serveReturn(e)]
    /\ UNCHANGED <<stopVars, mem, cMemMu, sMemMu, fuzzIn, fuzzOut, ctxDone, wc, hist>>

(***************************************************************************)
(* The worker process read from and written to by any peer: the records    *)
(* on fuzz_in are whatever JSON decodes into a call.                       *)
(***************************************************************************)
\* every call record a peer can encode
Calls ==
    {call(p, f, m) : p \in {NoPing, [set |-> TRUE]},
                     f \in {NoFuzz} \cup FuzzArgs,
                     m \in {NoMinimize} \cup MinimizeArgs}

\* the peer writes an input to shared memory and a call record on fuzz_in
PeerWrite ==
    /\ ServerAlive
    /\ ~InCall
    /\ Len(fuzzIn) = 0
    /\ Len(fuzzOut) = 0
    /\ \E e \in Entries, c \in Calls :
          /\ ~CorpusEntryDataErr(e)
          /\ mem' = setValue([mem EXCEPT !.count = 0], CorpusEntryData(e))
          /\ fuzzIn' = Append(fuzzIn, c)
    /\ hist' = NoHist
    /\ UNCHANGED <<stopVars, cMemMu, sMemMu, fuzzOut, ctxDone, wc, ws>>

\* the peer reads a response from fuzz_out
PeerRead ==
    /\ Len(fuzzOut) > 0
    /\ fuzzOut' = Tail(fuzzOut)
    /\ ws' = [ws EXCEPT !.answered = NoAnswer]
    /\ UNCHANGED <<stopVars, mem, cMemMu, sMemMu, fuzzIn, ctxDone, wc, hist>>

\* Lines 622-651: the loop of serve with its handlers
Serve ==
    \/ SrvPing
    \/ SrvNoArgs
    \/ SrvDecodeFails
    \/ SrvCtxDone
    \/ SrvFuzzBegin
    \/ SrvFuzzWarmup
    \/ SrvFuzzCancelled
    \/ SrvFuzzIter
    \/ SrvFuzzDeflake
    \/ SrvFuzzReturn
    \/ SrvMinimizeBegin
    \/ SrvMinimizeVerify
    \/ SrvMinimizeLoop
    \/ SrvTryMinimized
    \/ SrvMinimizerReturn
    \/ SrvMinimizeWrite
    \/ SrvMinimizeReturn

NextFrame == PeerWrite \/ PeerRead \/ Serve

(***************************************************************************)
(* The specification of the RPC layer.                                     *)
(***************************************************************************)
\* the environment of every call and the callers of the client
Env ==
    \/ ClientRecv
    \/ ClientCtxErr
    \/ ClientEOF
    \/ ClientReacquire
    \/ ClientReadCount
    \/ CoordinateResult
    \/ CoordinateStop
    \/ CoordinateRestart
    \/ CtxCancel
    \/ ProcTerminate
    \/ SrvCtxDone

NextFuzz ==
    \/ ClientFuzz
    \/ ClientFuzzFinish
    \/ SrvFuzzBegin
    \/ SrvFuzzWarmup
    \/ SrvFuzzCancelled
    \/ SrvFuzzIter
    \/ SrvFuzzDeflake
    \/ SrvFuzzReturn

NextMinimize ==
    \/ ClientMinimize
    \/ ClientMinimizeFinish
    \/ SrvMinimizeBegin
    \/ SrvMinimizeVerify
    \/ SrvMinimizeLoop
    \/ SrvTryMinimized
    \/ SrvMinimizerReturn
    \/ SrvMinimizeWrite
    \/ SrvMinimizeReturn

Next == Env \/ NextFuzz \/ NextMinimize

\* fuzz and minimize calls in any order
Spec == Init /\ [][Next]_vars

\* fuzz calls only
SpecFuzz == Init /\ [][Env \/ NextFuzz]_vars

\* minimize calls only
SpecMinimize == Init /\ [][Env \/ NextMinimize]_vars

\* ping, fuzz and minimize calls in any order
SpecCalls == Init /\ [][Env \/ NextPing \/ NextFuzz \/ NextMinimize]_vars

\* the worker process alone, fed any call records
SpecFrame == Init /\ [][NextFrame]_vars

(***************************************************************************)
(* The supervisor: worker.start, the waiter goroutine, worker.stop.        *)
(***************************************************************************)
\* what cmd.Wait can return: Nil for exit status 0
WaitErrs ==
    {Nil, "exit status 2", "exit status 70", "signal: interrupt", "signal: killed",
     "signal: hangup", "signal: segmentation fault"}

\* Lines 279-281
isRunning == w.cmd

\* a start that leaves interrupted as the last stop set it
started_keepsInterrupted ==
    [w EXCEPT !.cmd = TRUE, !.client = TRUE, !.waitErr = Nil, !.termC = "open"]

\* Lines 327-329, 365-369: the worker after a successful start
started ==
    [w EXCEPT !.cmd = TRUE, !.client = TRUE, !.waitErr = Nil,
              !.interrupted = FALSE, !.termC = "open"]

\* Lines 323-378: start.  Callers start only a worker that is not running
\* (line 324 panics otherwise).
Start ==
    /\ st.pc = "idle"
    /\ ~isRunning
    /\ \/ \* os.Pipe or cmd.Start fails
          /\ w' = [w EXCEPT !.waitErr = Nil, !.interrupted = FALSE, !.termC = "nil"]
          /\ proc' = NoProc
       \/ /\ w' = started
          /\ proc' = [NoProc EXCEPT !.state = "running", !.waiter = "wait"]
    /\ UNCHANGED <<rpcVars, co, GOOS, st>>

\* the child process terminates: on its own, on end of input, on a signal
ProcExit ==
    /\ proc.state = "running"
    /\ \E e \in WaitErrs : proc' = [proc EXCEPT !.state = "terminated", !.exitErr = e]
    /\ UNCHANGED <<rpcVars, co, GOOS, w, st>>

\* a waiter goroutine that drops what cmd.Wait returned
WaiterStore_dropped ==
    /\ proc.waiter = "wait"
    /\ proc.state = "terminated"
    /\ proc' = [proc EXCEPT !.state = "waited", !.waiter = "close"]
    /\ UNCHANGED <<rpcVars, co, GOOS, w, st>>

\* Line 373: cmd.Wait returns in the waiter goroutine, which stores the error
WaiterStore ==
    /\ proc.waiter = "wait"
    /\ proc.state = "terminated"
    /\ w' = [w EXCEPT !.waitErr = proc.exitErr]
    /\ proc' = [proc EXCEPT !.state = "waited", !.waiter = "close"]
    /\ UNCHANGED <<rpcVars, co, GOOS, st>>

\* Line 374: the waiter goroutine closes termC and ends
WaiterClose ==
    /\ proc.waiter = "close"
    /\ w.termC # "nil"
    /\ w' = [w EXCEPT !.termC = "closed"]
    /\ proc' = [proc EXCEPT !.waiter = "done", !.termCloses = @ + 1]
    /\ UNCHANGED <<rpcVars, co, GOOS, st>>

\* a stop that takes every later stop for the first one
stopAlreadyCalled_never == FALSE

\* Line 396: stop was already called for this process
stopAlreadyCalled == ~w.client

\* Lines 417-423: the first signal stop sends
firstSignal(goos) == IF goos = "windows" THEN "Kill" ELSE "Interrupt"

\* an escalation that never moves on to the next signal
nextSignal_same(sig) == sig

\* Lines 443, 449: the signal after sig
nextSignal(sig) == IF sig = "Interrupt" THEN "Kill" ELSE Nil

\* Lines 389-425: stop is called.  Callers stop only after a successful
\* start (line 390 panics otherwise).
StopCall ==
    /\ st.pc = "idle"
    /\ w.termC # "nil"
    /\ proc.stops < MaxStops
    /\ IF w.termC = "closed"
       THEN \* the worker already terminated
            IF stopAlreadyCalled
            THEN /\ st' = [IdleStop EXCEPT !.pc = "done", !.ret = w.waitErr]
                 /\ proc' = [proc EXCEPT !.stops = @ + 1]
                 /\ UNCHANGED w
            ELSE /\ st' = [IdleStop EXCEPT !.pc = "done", !.ret = w.waitErr]
                 /\ proc' = [proc EXCEPT !.stops = @ + 1, !.closes = @ + 1,
                                         !.fuzzInClosed = TRUE]
                 /\ w' = [w EXCEPT !.cmd = FALSE, !.client = FALSE]
       ELSE \* still running: close the client in a goroutine, arm the timer
            /\ st' = [IdleStop EXCEPT !.pc = "loop", !.closeC = "open",
                                      !.sig = firstSignal(GOOS), !.timer = TRUE]
            /\ proc' = [proc EXCEPT !.stops = @ + 1, !.closes = @ + 1]
            /\ UNCHANGED w
    /\ UNCHANGED <<rpcVars, co, GOOS>>

\* Lines 412-415, 972-990: Close closes fuzz_in
CloseFuzzIn ==
    /\ st.closeC = "open"
    /\ ~proc.fuzzInClosed
    /\ proc' = [proc EXCEPT !.fuzzInClosed = TRUE]
    /\ UNCHANGED <<rpcVars, co, GOOS, w, st>>

\* Lines 412-415, 978-981: closing fuzz_in fails and Close returns at once;
\* the goroutine closes closeC
CloseFails ==
    /\ st.closeC = "open"
    /\ ~proc.fuzzInClosed
    /\ st' = [st EXCEPT !.closeC = "closed"]
    /\ UNCHANGED <<rpcVars, co, GOOS, w, proc>>

\* Lines 412-415, 983-989: Close has drained fuzz_out, which ends when the
\* child has terminated; the goroutine closes closeC
CloseDrained ==
    /\ st.closeC = "open"
    /\ proc.fuzzInClosed
    /\ proc.state \in {"terminated", "waited"}
    /\ st' = [st EXCEPT !.closeC = "closed"]
    /\ UNCHANGED <<rpcVars, co, GOOS, w, proc>>

\* Lines 428-430: termC is closed; stop goes on to wait for closeC.
StopTermC ==
    /\ st.pc = "loop"
    /\ w.termC = "closed"
    /\ st' = [st EXCEPT !.pc = "join", !.timer = FALSE]
    /\ UNCHANGED <<rpcVars, co, GOOS, w, proc>>

\* Lines 431-434: closeC is closed; stop returns waitErr.
StopJoin ==
    /\ st.pc = "join"
    /\ st.closeC = "closed"
    /\ w' = [w EXCEPT !.cmd = FALSE, !.client = FALSE]
    /\ st' = [st EXCEPT !.pc = "done", !.ret = w.waitErr]
    /\ UNCHANGED <<rpcVars, co, GOOS, proc>>

\* Lines 436-455: the timer fires before the worker terminated.
StopTimeout ==
    /\ st.pc = "loop"
    /\ st.timer
    /\ w' = [w EXCEPT !.interrupted = TRUE]
    /\ IF st.sig # Nil
       THEN st' = [st EXCEPT !.sent = Append(@, st.sig), !.sig = nextSignal(st.sig),
                             !.fired = @ + 1, !.timer = TRUE]
       ELSE st' = [st EXCEPT !.logged = @ + 1, !.fired = @ + 1, !.timer = FALSE]
    /\ UNCHANGED <<rpcVars, co, GOOS, proc>>

\* stop has returned to its caller
StopReturn ==
    /\ st.pc = "done"
    /\ st' = IdleStop
    /\ UNCHANGED <<rpcVars, co, GOOS, w, proc>>

NextStop ==
    \/ Start
    \/ ProcExit
    \/ WaiterStore
    \/ WaiterClose
    \/ StopCall
    \/ CloseFuzzIn
    \/ CloseFails
    \/ CloseDrained
    \/ StopTermC
    \/ StopJoin
    \/ StopTimeout
    \/ StopReturn

\* the supervisor on either platform, the RPC layer at rest
InitStop == InitRpc /\ GOOS \in {"linux", "windows"} /\ InitStopVars

SpecStop == InitStop /\ [][NextStop]_vars

(***************************************************************************)
(* worker.coordinate, worker.minimize and worker.startAndPing.  The client *)
(* methods appear here by what they return to their caller.                *)
(***************************************************************************)
\* Line 35
workerExitCode == 70

\* exec.ExitError.ExitCode: -1 for a process ended by a signal
ExitCode(err) ==
    IF err = "exit status 70" THEN 70 ELSE IF err = "exit status 2" THEN 2 ELSE -1

\* the process was ended by a signal, and by which
terminationSignal(err) ==
    [ok |-> err \in {"signal: interrupt", "signal: killed", "signal: hangup",
                     "signal: segmentation fault"},
     sig |-> err]

\* the signals a fault of the program raises
isCrashSignal(sig) == sig \in {"signal: segmentation fault"}

\* the error of a process ended by the interrupt signal
isInterruptError(err) == err = "signal: interrupt"

\* a cleanup that does not wait for the permit before it closes the slot
CleanupTake_noReceive ==
    /\ w.cleanup = "idle"
    /\ w.cleanups < MaxCleanups
    /\ IF cMemMu = "closed"
       THEN /\ w' = [w EXCEPT !.cleanups = @ + 1]
            /\ UNCHANGED cMemMu
       ELSE /\ w' = [w EXCEPT !.cleanup = "close"]
            /\ cMemMu' = "empty"
    /\ UNCHANGED <<GOOS, proc, st, co, rpcRest, ctxDone>>

\* Lines 82-85: cleanup receives from w.memMu: the permit, or nil when the
\* slot is closed, and then it returns nil
CleanupTake ==
    /\ w.cleanup = "idle"
    /\ w.cleanups < MaxCleanups
    /\ cMemMu \in {"mem", "closed"}
    /\ IF cMemMu = "closed"
       THEN /\ w' = [w EXCEPT !.cleanups = @ + 1]
            /\ UNCHANGED cMemMu
       ELSE /\ w' = [w EXCEPT !.cleanup = "close"]
            /\ cMemMu' = "empty"
    /\ UNCHANGED <<GOOS, proc, st, co, rpcRest, ctxDone>>

\* Lines 86-87: close(w.memMu); return mem.Close()
CleanupClose ==
    /\ w.cleanup = "close"
    /\ cMemMu' = "closed"
    /\ w' = [w EXCEPT !.cleanup = "idle", !.cleanups = @ + 1, !.memCloses = @ + 1]
    /\ UNCHANGED <<GOOS, proc, st, co, rpcRest, ctxDone>>

\* worker.cleanup
Cleanup == CleanupTake \/ CleanupClose

\* fuzz calls while worker.cleanup runs in another goroutine
SpecCleanup == Init /\ [][Env \/ NextFuzz \/ Cleanup]_vars

\* the errors callLocked can return in the current state: the context's
\* error, the end of fuzz_out, a response that does not decode
CallErrs ==
    (IF ctxDone THEN {ctxErr} ELSE {})
    \cup (IF proc.state # "running" THEN {"EOF"} ELSE {})
    \cup {"invalid character"}

\* Lines 1111-1117: what ping returns
PingReturns == (IF proc.state = "running" THEN {Nil} ELSE {}) \cup CallErrs

\* Lines 1048-1108, 1003-1045: what fuzz and minimize return as error for an
\* entry; bad is an entry whose data cannot be read
ClientReturns(bad) ==
    IF cMemMu = "closed" THEN {errSharedMemClosed}
    ELSE IF cMemMu = "empty" THEN {}
    ELSE IF bad THEN {"CorpusEntryData"}
    ELSE (IF proc.state = "running" THEN {Nil} ELSE {}) \cup CallErrs
            \cup {errSharedMemClosed}

\* the permit after the client method returned err
PermitAfter(err) ==
    IF err = errSharedMemClosed THEN "closed"
    ELSE IF err = "CorpusEntryData" THEN "empty"
    ELSE cMemMu

\* a loop head that starts a worker on every iteration
needsStart_always == TRUE

\* Line 104: if !w.isRunning()
needsStart == ~isRunning

\* coordinate returns err
Return(err, why) == [co EXCEPT !.pc = "returned", !.ret = err, !.why = why]

\* Lines 102-108, 291-297, 323-378: the head of the loop; startAndPing up to
\* the ping
CoTop ==
    /\ co.pc = "top"
    /\ LET next == [NoCo EXCEPT !.iter = co.iter, !.starts = co.starts]
       IN IF ~needsStart
          THEN /\ co' = [next EXCEPT !.pc = "select"]
               /\ UNCHANGED <<w, proc>>
          ELSE IF ctxDone
          THEN /\ co' = [next EXCEPT !.pc = "returned", !.ret = <<ctxErr>>,
                                     !.why = "startAndPing"]
               /\ UNCHANGED <<w, proc>>
          ELSE IF isRunning
          THEN \* Lines 324-326
               /\ co' = [next EXCEPT !.pc = "panic", !.why = "worker already started"]
               /\ UNCHANGED <<w, proc>>
          ELSE \/ \* start fails
                  /\ w' = [w EXCEPT !.waitErr = Nil, !.interrupted = FALSE,
                                    !.termC = "nil"]
                  /\ proc' = NoProc
                  /\ co' = [next EXCEPT !.pc = "returned", !.ret = <<"fork/exec">>,
                                        !.why = "start"]
               \/ /\ w' = started
                  /\ proc' = [NoProc EXCEPT !.state = "running", !.waiter = "wait"]
                  /\ co' = [next EXCEPT !.pc = "ping", !.starts = @ + 1,
                                        !.restartOf = co.why]
    /\ UNCHANGED <<rpcVars, GOOS, st>>

\* Lines 298-299: the ping
CoPing ==
    /\ co.pc = "ping"
    /\ \E e \in PingReturns :
         co' = IF e = Nil THEN [co EXCEPT !.pc = "select", !.restartOf = ""]
               ELSE [co EXCEPT !.pc = "stop_ping", !.err = e, !.restartOf = ""]
    /\ UNCHANGED <<rpcVars, GOOS, w, proc, st>>

\* a startAndPing that reports every failed ping as a failure to fuzz
pingErrorReturn_noCtx(ctx, err) ==
    <<"fuzzing process terminated without fuzzing", err>>

\* Lines 301-310: what startAndPing returns after a failed ping
pingErrorReturn(ctx, err) ==
    IF ctx THEN <<ctxErr>>
    ELSE IF isInterruptError(err) THEN <<err>>
    ELSE <<"fuzzing process terminated without fuzzing", err>>

\* Lines 300-310: after the stop that follows a failed ping
CoAfterStopPing ==
    /\ co.pc = "stop_ping"
    /\ st.pc = "done"
    /\ st' = IdleStop
    /\ co' = [Return(pingErrorReturn(ctxDone, co.err), "ping") EXCEPT !.ctx = ctxDone]
    /\ UNCHANGED <<rpcVars, GOOS, w, proc>>

\* Lines 111-112: the select takes ctx.Done()
CoCtxDone ==
    /\ co.pc = "select"
    /\ ctxDone
    /\ co' = [co EXCEPT !.pc = "stop_ctx", !.result = NoResult, !.item = NoItem]
    /\ UNCHANGED <<rpcVars, GOOS, w, proc, st>>

\* a cancellation branch that does not look at w.interrupted
ctxBranchReturn_noInterrupted(err, interrupted) ==
    IF err # Nil /\ ~isInterruptError(err) THEN <<err>> ELSE <<ctxErr>>

\* Lines 114-117: what the cancellation branch returns, err being stop's error
ctxBranchReturn(err, interrupted) ==
    IF err # Nil /\ ~interrupted /\ ~isInterruptError(err) THEN <<err>> ELSE <<ctxErr>>

\* Lines 113-117
CoAfterStopCtx ==
    /\ co.pc = "stop_ctx"
    /\ st.pc = "done"
    /\ st' = IdleStop
    /\ co' = Return(ctxBranchReturn(st.ret, w.interrupted), "cancel")
    /\ UNCHANGED <<rpcVars, GOOS, w, proc>>

\* Lines 119-120: the select takes the closed termC
CoTermC ==
    /\ co.pc = "select"
    /\ w.termC = "closed"
    /\ co' = [co EXCEPT !.pc = "stop_term", !.result = NoResult, !.item = NoItem]
    /\ UNCHANGED <<rpcVars, GOOS, w, proc, st>>

\* a termination branch without the case of the reserved exit code
termBranchReturn_noExitCode(err) ==
    IF err = Nil \/ isInterruptError(err) THEN NoErr
    ELSE <<"fuzzing process terminated unexpectedly", err>>

\* Lines 125-145: what the termination branch returns, err being stop's error
termBranchReturn(err) ==
    IF err = Nil \/ isInterruptError(err) THEN NoErr
    ELSE IF ExitCode(err) = workerExitCode
    THEN <<"fuzzing process exited unexpectedly due to an internal failure", err>>
    ELSE <<"fuzzing process terminated unexpectedly", err>>

\* Lines 121-146
CoAfterStopTerm ==
    /\ co.pc = "stop_term"
    /\ st.pc = "done"
    /\ st' = IdleStop
    /\ co' = IF w.interrupted
             THEN [co EXCEPT !.pc = "panic"]
             ELSE Return(termBranchReturn(st.ret), "term")
    /\ UNCHANGED <<rpcVars, GOOS, w, proc>>

\* a result on resultC
Result(crasherMsg, canMinimize, fromInput) ==
    [set |-> TRUE, crasherMsg |-> crasherMsg, canMinimize |-> canMinimize,
     fromInput |-> fromInput]

\* Lines 148-157, 192-202: the select takes an input; the fuzz call; its
\* result is sent when the call succeeded
CoInput ==
    /\ co.pc = "select"
    /\ co.iter < MaxIter
    /\ \E bad \in BOOLEAN, respErr \in {NoErr, <<"boom">>} :
         \E e \in ClientReturns(bad) :
           LET item == [NoItem EXCEPT !.kind = "fuzz", !.bad = bad]
               taken == [co EXCEPT !.item = item, !.iter = @ + 1, !.err = e,
                                   !.result = NoResult, !.respErr = NoErr]
           IN /\ co' = IF e = Nil
                       THEN [taken EXCEPT !.pc = "top", !.respErr = respErr,
                                          !.result = Result(respErr, TRUE, FALSE),
                                          !.why = "fuzz ok"]
                       ELSE [taken EXCEPT !.pc = "stop_fuzz"]
              /\ cMemMu' = PermitAfter(e)
    /\ UNCHANGED <<rpcRest, ctxDone, GOOS, w, proc, st>>

\* Lines 1052, 1007: the select takes an item while the slot of the permit
\* is empty; the client method waits in its receive from memMu
CoBlocked ==
    /\ co.pc = "select"
    /\ co.iter < MaxIter
    /\ cMemMu = "empty"
    /\ w.cleanup = "idle"
    /\ \E k \in {"fuzz", "minimize"} :
         co' = [co EXCEPT !.pc = "blocked", !.item = [NoItem EXCEPT !.kind = k],
                          !.iter = @ + 1, !.result = NoResult, !.respErr = NoErr]
    /\ UNCHANGED <<rpcVars, GOOS, w, proc, st>>

\* a classification that forgets the signals that are no crashes
fuzzErrorClass_noSignalCheck(ctx, interrupted, waitErr) ==
    IF ctx THEN "ctx"
    ELSE IF interrupted THEN "interrupted"
    ELSE IF waitErr = Nil \/ isInterruptError(waitErr) THEN "exit"
    ELSE "crash"

\* a coordinate that gives up on every failed fuzz call
fuzzErrorClass_noRestart(ctx, interrupted, waitErr) ==
    IF ctx THEN "ctx"
    ELSE IF interrupted THEN "interrupted"
    ELSE IF waitErr = Nil \/ isInterruptError(waitErr) THEN "exit"
    ELSE "signal"

\* Lines 160-191: the branch coordinate takes after a failed fuzz call
fuzzErrorClass(ctx, interrupted, waitErr) ==
    IF ctx THEN "ctx"
    ELSE IF interrupted THEN "interrupted"
    ELSE IF waitErr = Nil \/ isInterruptError(waitErr) THEN "exit"
    ELSE IF terminationSignal(waitErr).ok /\ ~isCrashSignal(terminationSignal(waitErr).sig)
    THEN "signal"
    ELSE "crash"

\* Lines 158-202: after the stop that follows a failed fuzz call
CoAfterStopFuzz ==
    /\ co.pc = "stop_fuzz"
    /\ st.pc = "done"
    /\ st' = IdleStop
    /\ LET class == fuzzErrorClass(ctxDone, w.interrupted, w.waitErr)
           crasher == <<"fuzzing process terminated unexpectedly", w.waitErr>>
           seen == [co EXCEPT !.ctx = ctxDone, !.why = class]
       IN co' = IF class = "ctx"
                THEN [seen EXCEPT !.pc = "returned", !.ret = <<ctxErr>>]
                ELSE IF class = "interrupted"
                THEN [seen EXCEPT !.pc = "returned",
                                  !.ret = <<"communicating with fuzzing process", co.err>>]
                ELSE IF class = "exit"
                THEN [seen EXCEPT !.pc = "returned", !.ret = NoErr]
                ELSE IF class = "signal"
                THEN [seen EXCEPT !.pc = "returned",
                                  !.ret = <<"fuzzing process terminated by unexpected signal; no crash will be recorded",
                                            w.waitErr>>]
                ELSE [seen EXCEPT !.pc = "top", !.respErr = crasher,
                                  !.result = Result(crasher, FALSE, FALSE)]
    /\ UNCHANGED <<rpcVars, GOOS, w, proc>>

\* Lines 204-222, 231-243, 262-276: the select takes an input to minimize;
\* the minimize call; its result when the call succeeded
CoMinimizeInput ==
    /\ co.pc = "select"
    /\ co.iter < MaxIter
    /\ \E bad \in BOOLEAN, respErr \in {NoErr, <<"boom">>}, success \in BOOLEAN,
          crasherMsg \in {NoErr, <<"boom">>}, deadline \in BOOLEAN :
         \E e \in ClientReturns(bad) \cup (IF deadline THEN {"context deadline exceeded"} ELSE {}) :
           LET item == [kind |-> "minimize", crasherMsg |-> crasherMsg, bad |-> bad,
                        deadline |-> deadline]
               taken == [co EXCEPT !.item = item, !.iter = @ + 1, !.err = e,
                                   !.result = NoResult, !.respErr = NoErr]
               noRepro == crasherMsg # NoErr /\ respErr = NoErr /\ ~success
           IN /\ cMemMu # "empty"
              /\ co' = IF e # Nil
                       THEN [taken EXCEPT !.pc = "stop_min"]
                       ELSE IF noRepro
                       THEN [taken EXCEPT !.pc = "top", !.why = "minimize no repro",
                                          !.result = Result(crasherMsg, FALSE, TRUE)]
                       ELSE [taken EXCEPT !.pc = "top", !.why = "minimize ok",
                                          !.respErr = respErr,
                                          !.result = Result(respErr, FALSE, FALSE)]
              /\ cMemMu' = PermitAfter(e)
    /\ UNCHANGED <<rpcRest, ctxDone, GOOS, w, proc, st>>

\* Lines 244-259, 207-222: after the stop that follows a failed minimize call
CoAfterStopMin ==
    /\ co.pc = "stop_min"
    /\ st.pc = "done"
    /\ st' = IdleStop
    /\ LET err == <<"fuzzing process terminated unexpectedly while minimizing", w.waitErr>>
           msg == IF co.item.crasherMsg = NoErr THEN err ELSE co.item.crasherMsg
       IN co' = IF ctxDone \/ co.item.deadline \/ w.interrupted \/ isInterruptError(w.waitErr)
                THEN [co EXCEPT !.pc = "top", !.why = "minimize interrupted",
                                !.ctx = ctxDone \/ co.item.deadline,
                                !.result = Result(co.item.crasherMsg, FALSE, TRUE)]
                ELSE [co EXCEPT !.pc = "top", !.why = "minimize failed",
                                !.result = Result(msg, FALSE, TRUE)]
    /\ UNCHANGED <<rpcVars, GOOS, w, proc>>

\* worker.stop as coordinate, minimize and startAndPing call it
CoStop ==
    /\ co.pc \in {"stop_ping", "stop_ctx", "stop_term", "stop_fuzz", "stop_min"}
    /\ IF w.termC = "nil"
       THEN \* Lines 390-392
            /\ co' = [co EXCEPT !.pc = "panic", !.why = "worker was not started successfully"]
            /\ UNCHANGED <<rpcVars, GOOS, w, proc, st>>
       ELSE StopCall

NextCoordinate ==
    \/ CoTop
    \/ CoPing
    \/ CoAfterStopPing
    \/ CoCtxDone
    \/ CoAfterStopCtx
    \/ CoTermC
    \/ CoAfterStopTerm
    \/ CoInput
    \/ CoBlocked
    \/ CoAfterStopFuzz
    \/ CoMinimizeInput
    \/ CoAfterStopMin
    \/ CoStop
    \/ CtxCancel
    \/ CleanupTake
    \/ CleanupClose
    \/ ProcExit
    \/ WaiterStore
    \/ WaiterClose
    \/ CloseFuzzIn
    \/ CloseFails
    \/ CloseDrained
    \/ StopTermC
    \/ StopJoin
    \/ StopTimeout

\* one worker's coordinate with its child processes
InitCoordinate == Init /\ ws = NewServer([state |-> 0, inc |-> 1])

SpecCoordinate == InitCoordinate /\ [][NextCoordinate]_vars

\* the steps of the goroutine that runs coordinate, stop included
CoordinateSteps ==
    \/ CoTop
    \/ CoPing
    \/ CoAfterStopPing
    \/ CoCtxDone
    \/ CoAfterStopCtx
    \/ CoTermC
    \/ CoAfterStopTerm
    \/ CoInput
    \/ CoBlocked
    \/ CoAfterStopFuzz
    \/ CoMinimizeInput
    \/ CoAfterStopMin
    \/ CoStop
    \/ StopTermC
    \/ StopJoin
    \/ StopTimeout

\* Lines 446-451: stop has sent os.Kill to the child
Killed == \E i \in DOMAIN st.sent : st.sent[i] = "Kill"

\* coordinate under a scheduler that runs every goroutine that can take a
\* step, with a child that terminates once it is killed
SpecCoordinateFair ==
    /\ SpecCoordinate
    /\ WF_vars(CoordinateSteps)
    /\ WF_vars(WaiterStore \/ WaiterClose)
    /\ WF_vars(CloseFuzzIn \/ CloseFails \/ CloseDrained)
    /\ WF_vars(Killed /\ ProcExit)

(***************************************************************************)
(* Properties of the RPC layer.                                            *)
(***************************************************************************)
ClientInCall ==
    wc.pc \in {"waiting", "called", "holding", "counted", "returned", "stopped"}

\* the client method got as far as writing its input to shared memory
InputWritten == ClientInCall /\ wc.err # "CorpusEntryData"

\* C1: mutation replay determinism.  Whenever the client has built an
\* output entry for a fuzz call that was not a warmup, the number of
\* mutations it replayed equals the number of mutations the worker had
\* applied, and the values it rebuilt are the values the worker ran last.
\* Stated for the calls that ended with the worker's response or with the
\* worker's termination, where the worker is at rest when the client reads.
ReplayDeterminism ==
    (wc.pc = "returned" /\ wc.method = "fuzz" /\ ~wc.args.Warmup
        /\ wc.callErr \in {Nil, "EOF"}
        /\ Len(wc.entryOut.Data) > 0)
    => /\ wc.replayed = hist.seenMuts
       /\ unmarshalCorpusFile(wc.entryOut.Data) = hist.seenVals

\* C2: permit exclusivity.  The client never holds the permit of the
\* shared memory (reading the header and the value) while the server is
\* still handling the call under its own permit.
PermitExclusivity ==
    ~(wc.pc \in {"holding", "counted"} /\ ServerAlive /\ sMemMu = "empty")

\* C3: input immutability in fuzz.  From the moment the client has written
\* its input, through the whole fuzz call and after it, the value in shared
\* memory is that input, and the client never faults on a modified input.
FuzzInputImmutable ==
    /\ (wc.method = "fuzz" /\ InputWritten) => mem.value = wc.inp
    /\ wc.pc # "panic"

\* a fuzz call has returned after at least two runs, with an output entry
\* that differs from the input
FuzzInputImmutableWitness ==
    /\ wc.pc = "returned"
    /\ wc.method = "fuzz"
    /\ wc.resp.Count >= 2
    /\ Len(wc.entryOut.Data) > 0
    /\ wc.entryOut.Data # wc.inp

\* C4: minimize preserves interestingness.  Once minimizeInput has
\* returned success, the values in shared memory (and the values of the
\* entry the client returns) are values the fuzz function was run on, and
\* that run met the target: an error in crash mode, no error and a bit of
\* KeepCoverage in coverage mode.
MinimizePreservesTarget ==
    LET target == IF wc.margs.KeepCoverage = Nil THEN "err" ELSE "cov"
        met(v) == v \in DOMAIN hist.memo /\ hist.memo[v] = target
    IN /\ (wc.method = "minimize" /\ hist.minDone)
            => met(unmarshalCorpusFile(mem.value))
       /\ (wc.method = "minimize" /\ wc.pc = "returned" /\ wc.resp.Success)
            => met(wc.entryOut.Values)

\* a coverage-mode minimize call has returned success with smaller values
MinimizePreservesTargetWitness ==
    /\ wc.pc = "returned"
    /\ wc.method = "minimize"
    /\ wc.margs.KeepCoverage # Nil
    /\ wc.resp.Success
    /\ wc.entryOut.Data # wc.inp

CountMonotonic ==
    /\ mem.count = hist.fnCalls
    /\ (wc.pc = "returned" /\ wc.method \in {"fuzz", "minimize"} /\ InputWritten
          /\ wc.err # errSharedMemClosed)
           => wc.resp.Count = hist.endCount

\* the part of C6 about the header alone: the client's reset sets count to
\* 0 and no other step lowers it
CountResetAndGrowth ==
    [][/\ (wc.pc = "idle" /\ wc'.pc # "idle") => mem'.count = 0
       /\ (mem'.count < mem.count) => (wc.pc = "idle" /\ wc'.pc # "idle")]_vars

\* C7: limit bound in fuzz.  In a fuzz call with Limit > 0 the fuzz
\* function is called at most Limit times, deflake runs included:
\* header.count and the Count of the response never exceed Limit.
LimitBound ==
    (wc.method = "fuzz" /\ InputWritten /\ wc.args.Limit > 0)
    => /\ mem.count <= wc.args.Limit
       /\ hist.fnCalls <= wc.args.Limit
       /\ wc.resp.Count <= wc.args.Limit

\* a fuzz call has used up its limit, one of the runs being a deflake run
LimitBoundWitness ==
    /\ wc.pc = "returned"
    /\ wc.method = "fuzz"
    /\ wc.args.Limit = MaxLimit
    /\ wc.resp.Count = MaxLimit
    /\ hist.muts < hist.fnCalls

\* C8: warmup.  A warmup call runs the fuzz function at most once, exactly
\* once when its response arrives, on the unmutated input; the worker
\* applies no mutation and the client replays none, so an output entry of
\* a warmup call carries the input.
WarmupRunsOnce ==
    (wc.method = "fuzz" /\ InputWritten /\ wc.args.Warmup)
    => /\ hist.muts = 0
       /\ hist.fnCalls <= 1
       /\ (hist.fnCalls = 1 => hist.ran = unmarshalCorpusFile(wc.inp))
       /\ (wc.pc = "returned" /\ wc.callErr = Nil => wc.resp.Count = 1)
       /\ wc.replayed = 0
       /\ (Len(wc.entryOut.Data) > 0 => wc.entryOut.Data = wc.inp)

\* a warmup call has returned an error of the fuzz function
WarmupRunsOnceWitness ==
    /\ wc.pc = "returned"
    /\ wc.method = "fuzz"
    /\ wc.args.Warmup
    /\ wc.resp.Err # ""
    /\ wc.resp.Count = 1
    /\ Len(wc.entryOut.Data) > 0

(***************************************************************************)
(* Properties of the supervisor.                                           *)
(***************************************************************************)
\* C9: stop returns only after the child has terminated.  At every return
\* of stop the child has terminated and termC is closed, cmd and client
\* are cleared, and the value returned is the waitErr stored for that
\* process; the client of a process is closed once, however often stop is
\* called.
StopReturnsAfterTermination ==
    /\ st.pc = "done"
         => /\ proc.state = "waited"
            /\ w.termC = "closed"
            /\ ~w.cmd
            /\ ~w.client
            /\ w.waitErr = proc.exitErr
            /\ st.ret = w.waitErr
            /\ proc.closes = 1
    /\ proc.closes <= 1

\* a second stop on the same process has returned a non-nil waitErr
StopReturnsAfterTerminationWitness ==
    /\ st.pc = "done"
    /\ proc.stops = 2
    /\ st.ret # Nil

\* C10: signal escalation order in stop.  A signal is sent only by a
\* timeout, one signal per timeout; where the platform has an interrupt
\* signal the signals sent are the interrupt, then the kill, each at most
\* once; on Windows only the kill is sent, once; a stop that finds the
\* child terminated sends nothing.
SignalEscalation ==
    /\ Len(st.sent) <= st.fired
    /\ GOOS # "windows" => st.sent \in {<<>>, <<"Interrupt">>, <<"Interrupt", "Kill">>}
    /\ GOOS = "windows" => st.sent \in {<<>>, <<"Kill">>}
    /\ (st.pc = "done" /\ st.closeC = "nil") => st.sent = <<>>

\* a stop has sent the interrupt and then the kill before the child terminated
SignalEscalationWitness ==
    /\ st.pc = "done"
    /\ st.sent = <<"Interrupt", "Kill">>
    /\ st.fired >= 2

\* C11: against a child that does not terminate, stop keeps logging.
\* While stop waits in its loop its timer is pending, so that every
\* further timeout period ends in a timeout; and once the kill has been
\* sent every timeout logs the "waiting ..." line: the lines logged are
\* the timeouts that sent no signal.
StopLogsRepeatedly ==
    /\ (st.pc = "loop" /\ proc.state = "running") => st.timer
    /\ st.logged = st.fired - Len(st.sent)

(***************************************************************************)
(* Properties of coordinate.                                               *)
(***************************************************************************)
\* the fuzz call of this iteration failed and coordinate has dealt with it
FuzzCallFailed ==
    co.item.kind = "fuzz" /\ co.err # Nil /\ co.pc \in {"top", "returned"}

\* C12: crasher classification after a failed fuzz call.  After the stop
\* that follows the failed call, coordinate sends the result with the
\* "terminated unexpectedly" message and canMinimize = false, and goes on,
\* exactly when the context was not cancelled, stop sent no signal, waitErr
\* is neither nil nor an interrupt error, and the child was not ended by a
\* signal that is no crash signal; otherwise it returns the context's
\* error, a communication error, nil or the "no crash will be recorded"
\* error, in that order of precedence, and sends nothing.
FuzzCrasherClassification ==
    FuzzCallFailed =>
      LET sig == terminationSignal(w.waitErr)
          nonCrashSignal == sig.ok /\ ~isCrashSignal(sig.sig)
          silent == w.waitErr = Nil \/ isInterruptError(w.waitErr)
          crash == ~co.ctx /\ ~w.interrupted /\ ~silent /\ ~nonCrashSignal
      IN /\ co.result.set <=> crash
         /\ co.pc = "top" <=> crash
         /\ crash => co.result = Result(<<"fuzzing process terminated unexpectedly",
                                          w.waitErr>>, FALSE, FALSE)
         /\ ~crash =>
              co.ret = IF co.ctx THEN <<ctxErr>>
                       ELSE IF w.interrupted
                       THEN <<"communicating with fuzzing process", co.err>>
                       ELSE IF silent THEN NoErr
                       ELSE <<"fuzzing process terminated by unexpected signal; no crash will be recorded",
                              w.waitErr>>

\* a child ended by SIGKILL during a fuzz call, without a signal from stop
\* and without cancellation: the error is returned and no crasher recorded
FuzzCrasherClassificationWitness ==
    /\ FuzzCallFailed
    /\ co.pc = "returned"
    /\ ~co.ctx
    /\ ~w.interrupted
    /\ w.waitErr = "signal: killed"
    /\ ~co.result.set

\* C13: idle termination classification.  When the select finds termC
\* closed, coordinate stops, sends no result and returns: nil if waitErr
\* is nil or an interrupt error, the "internal failure" error if the child
\* exited with code 70, the "terminated unexpectedly" error in every other
\* case; the panic for a worker interrupted by stop is never reached.
IdleTerminationClassification ==
    /\ co.pc # "panic"
    /\ co.pc = "stop_term" => ~co.result.set
    /\ (co.pc = "returned" /\ co.why = "term")
         => /\ ~co.result.set
            /\ w.termC = "closed"
            /\ co.ret = IF w.waitErr = Nil \/ w.waitErr = "signal: interrupt"
                        THEN NoErr
                        ELSE IF ExitCode(w.waitErr) = 70
                        THEN <<"fuzzing process exited unexpectedly due to an internal failure",
                               w.waitErr>>
                        ELSE <<"fuzzing process terminated unexpectedly", w.waitErr>>

\* the child exited with the reserved code while coordinate waited for work
IdleTerminationClassificationWitness ==
    /\ co.pc = "returned"
    /\ co.why = "term"
    /\ w.waitErr = "exit status 70"
    /\ co.ret[1] = "fuzzing process exited unexpectedly due to an internal failure"

\* C14: the cancellation branch.  When the select takes ctx.Done(),
\* coordinate calls stop, sends no result and returns the context's error;
\* it returns the error of stop instead exactly when that error is not
\* nil, is no interrupt error and stop sent no signal to the child.
CancellationBranch ==
    /\ co.pc = "stop_ctx" => ~co.result.set
    /\ (co.pc = "returned" /\ co.why = "cancel")
         => /\ ~co.result.set
            /\ proc.stops >= 1
            /\ ~isRunning
            /\ co.ret = IF /\ w.waitErr # Nil
                           /\ w.waitErr # "signal: interrupt"
                           /\ ~w.interrupted
                        THEN <<w.waitErr>>
                        ELSE <<ctxErr>>

\* the context was cancelled and stop had to signal a child that then died
\* of the kill: the context's error is returned, not the kill
CancellationBranchWitness ==
    /\ co.pc = "returned"
    /\ co.why = "cancel"
    /\ w.interrupted
    /\ w.waitErr = "signal: killed"
    /\ co.ret = <<ctxErr>>

(***************************************************************************)
(* Properties of the pipes.                                                *)
(***************************************************************************)
\* the calls of the running process that are written and not yet answered
\* to the reader: queued, being handled, or answered and unread
InFlight == Len(fuzzIn) + (IF InCall THEN 1 ELSE 0) + Len(fuzzOut)

CallFraming ==
    /\ InCall => ws.framed = "one"
    /\ ws.framed \in {"zero", "many"}
         => (ws.pc = "exited" /\ ws.serveErr = "no arguments provided for any call")

\* coordinate has returned from the branch of a failed fuzz call
GaveUpFuzzing ==
    co.pc = "returned" /\ co.why \in {"ctx", "interrupted", "exit", "signal", "crash"}

\* the termination is put down to an interruption: the context fired (timer
\* or user), stop had to signal the process, or the process exited with
\* status 0 or on an interrupt signal (lines 127-136: the user's ^C)
Interruption == co.ctx \/ w.interrupted \/ w.waitErr = Nil \/ isInterruptError(w.waitErr)

Range(q) == {q[i] : i \in DOMAIN q}

\* C18: the shared-memory-closed sentinel is never surfaced.  When the
\* fuzz call failed with errSharedMemClosed, the error coordinate returns
\* does not contain the sentinel's text, and the result it sends records
\* no crasher.
SentinelNeverSurfaced ==
    /\ co.pc = "returned" => errSharedMemClosed \notin Range(co.ret)
    /\ (co.item.kind = "fuzz" /\ co.err = errSharedMemClosed /\ co.result.set)
         => co.result.crasherMsg = NoErr

\* C19: startAndPing failure handling.  With the context already
\* cancelled startAndPing returns its error and has started no process.
\* After a failed ping the worker has been stopped, so that it is not
\* running and its process has been waited for, and the error is the
\* context's error if it fired, else the ping error itself if it is an
\* interrupt error, else "terminated without fuzzing" wrapping it.
StartAndPingFailure ==
    /\ co.why = "startAndPing"
         => /\ co.pc = "returned"
            /\ co.ret = <<ctxErr>>
            /\ ~isRunning
            /\ proc.state \in {"none", "waited"}
    /\ co.why = "ping"
         => /\ co.pc = "returned"
            /\ ~isRunning
            /\ proc.state = "waited"
            /\ proc.stops >= 1
            /\ co.ret = IF co.ctx THEN <<ctxErr>>
                        ELSE IF isInterruptError(co.err) THEN <<co.err>>
                        ELSE <<"fuzzing process terminated without fuzzing", co.err>>

\* a ping fails although the context was not cancelled: the worker is
\* stopped and the wrapped error returned
StartAndPingFailureWitness ==
    /\ co.why = "ping"
    /\ ~co.ctx
    /\ co.err = "EOF"
    /\ co.ret = <<"fuzzing process terminated without fuzzing", "EOF">>
    /\ proc.state = "waited"

(***************************************************************************)
(* Properties of termC.                                                    *)
(***************************************************************************)
\* C20: termC lifecycle.  The process of a successful start has a termC
\* of its own that is open while its waiter has not finished, and no
\* waiter of an earlier process is left; the waiter stores waitErr before
\* it closes termC, and closes it once; and wherever stop, coordinate or
\* minimize read waitErr (stop about to return it, its caller about to
\* test it) termC is closed.
TermCLifecycle ==
    /\ proc.waiter \in {"wait", "close"} => (w.cmd /\ w.termC = "open" /\ proc.termCloses = 0)
    /\ proc.waiter = "done" => (w.termC = "closed" /\ proc.termCloses = 1)
    /\ proc.waiter = "none" => (w.termC = "nil" /\ ~w.cmd)
    /\ w.termC = "closed" => (proc.state = "waited" /\ w.waitErr = proc.exitErr)
    /\ proc.waiter = "wait" => w.waitErr = Nil
    /\ st.pc \in {"join", "done"} => (w.termC = "closed" /\ st.ret \in {Nil, w.waitErr})
    /\ (co.pc = "top" /\ co.why \in {"crash", "minimize failed", "minimize interrupted"})
         => w.termC = "closed"
    /\ (co.pc = "returned" /\ co.why \in {"ping", "cancel", "term", "ctx", "interrupted",
                                          "exit", "signal"})
         => w.termC = "closed"

\* the second process of a run has terminated with an error, its waiter
\* has stored it and closed termC, and stop is about to return it
TermCLifecycleWitness ==
    /\ co.starts = 2
    /\ proc.waiter = "done"
    /\ w.waitErr = "exit status 2"
    /\ st.pc = "join"

(***************************************************************************)
(* Properties of the permit and of the handlers.                           *)
(***************************************************************************)
\* C21: the permit is returned on every path.  When a client fuzz or
\* minimize call has returned, the permit it took is back in the slot:
\* the slot is not left empty, so that the next call or cleanup can
\* receive from it.
PermitReturned ==
    (wc.pc = "returned" /\ wc.method \in {"fuzz", "minimize"}) => cMemMu # "empty"

\* a non-warmup fuzz call is about to return new coverage
ReportsCoverage ==
    /\ ws.pc = "ret"
    /\ ws.method = "fuzz"
    /\ ~ws.args.Warmup
    /\ ws.resp.CoverageData # Nil

\* C22 as stated: coverage is reported only after a second run of the
\* same values that again showed new coverage.
DeflakeAlways ==
    /\ hist.runs <= 2
    /\ ReportsCoverage => (hist.runs = 2 /\ hist.covRuns = 2 /\ hist.ran = ws.vals)

\* C22: deflake before reporting coverage.  A non-warmup fuzz call
\* returns CoverageData only after the same values were run a second
\* time and again showed new coverage, or after a single run that showed
\* new coverage and reached the limit of the call; the values are run at
\* most twice.
DeflakeUnlessLimit ==
    /\ hist.runs <= 2
    /\ ReportsCoverage
         => /\ ws.resp.Err = ""
            /\ hist.ran = ws.vals
            /\ \/ hist.runs = 2 /\ hist.covRuns = 2
               \/ hist.runs = 1 /\ hist.covRuns = 1 /\ shouldStop(mem, ws.args.Limit)

\* coverage is reported after two runs of the same values
DeflakeUnlessLimitWitness ==
    /\ ReportsCoverage
    /\ hist.runs = 2
    /\ hist.covRuns = 2

\* C23: keep-or-restore contract of tryMinimized.  After a call of
\* tryMinimized the slot holds the cast candidate if the call returned
\* true and the value it had before the call if it returned false.
TryMinimizedKeepOrRestore ==
    \A i \in DOMAIN hist.lastTry :
        hist.lastTry[i].after = IF hist.lastTry[i].ok THEN hist.lastTry[i].cand
                                ELSE hist.lastTry[i].prev

(***************************************************************************)
(* Properties of the lifecycle under coordinate.                           *)
(***************************************************************************)
\* C24: the fault "worker interrupted after unexpected termination" is
\* unreachable.  While coordinate pings, selects, or stops the worker in
\* the termC branch, interrupted is false, so that the branch never
\* panics; interrupted is true only from a timeout of a stop on, until
\* coordinate returns or starts the next process.
InterruptedFaultUnreachable ==
    /\ co.pc \in {"ping", "select", "stop_term"} => ~w.interrupted
    /\ co.pc = "stop_term" => (w.termC = "closed" /\ st.fired = 0)
    /\ co.pc \notin {"panic"}
    /\ w.interrupted
         => \/ st.pc \in {"loop", "join", "done"} /\ st.fired >= 1
            \/ co.pc \in {"top", "returned"}

\* the termC branch is taken for the second process of a run, and its
\* stop has returned
InterruptedFaultUnreachableWitness ==
    /\ co.pc = "stop_term"
    /\ st.pc = "done"
    /\ co.starts = 2
    /\ ~w.interrupted

\* C25: one result per work item.  An item that coordinate has taken is
\* being worked on, has got its one result when coordinate is back at the
\* head of its loop, or coordinate has returned without a result; a
\* minimize request never ends in a return; the results of the minimize
\* path have canMinimize = false, and after an error of minimize the
\* result carries the original entry and a crasher message.
OneResultPerItem ==
    /\ co.item.kind # "none" => co.pc \in {"stop_fuzz", "stop_min", "top", "returned"}
    /\ (co.pc = "top" /\ co.item.kind # "none") => co.result.set
    /\ co.pc \in {"returned", "stop_fuzz", "stop_min"} => ~co.result.set
    /\ co.item.kind = "minimize" => co.pc \in {"stop_min", "top"}
    /\ (co.item.kind = "minimize" /\ co.result.set) => ~co.result.canMinimize
    /\ (co.pc = "top" /\ co.why \in {"minimize failed", "minimize no repro"})
         => (co.result.fromInput /\ co.result.crasherMsg # NoErr)

\* C26: eventual return after cancellation.  Once the context is
\* cancelled coordinate eventually returns.
ReturnsAfterCancel == ctxDone ~> (co.pc = "returned")

\* C27: cleanup and the permit slot.  For every interleaving of cleanup
\* with a client call, cleanup closes the slot while it
\* holds the permit itself: the client and cleanup never hold it together,
\* and the client never sends the permit into a closed slot; a client that
\* has taken the permit has it from an open slot, and the sentinel is
\* returned only once the slot is closed; the slot and the memory are
\* closed at most once, however often cleanup is called.
CleanupClosesHoldingPermit ==
    /\ cMemMu # "faulted"
    /\ wc.pc \in {"holding", "counted"} => (cMemMu = "empty" /\ w.cleanup = "idle")
    /\ w.cleanup = "close" => cMemMu = "empty"
    /\ w.memCloses <= 1
    /\ (cMemMu = "closed") = (w.memCloses = 1)
    /\ wc.err = errSharedMemClosed => (cMemMu = "closed" /\ wc.pc \in {"returned", "stopped"})
    /\ w.cleanups > w.memCloses => cMemMu = "closed"

\* a second cleanup has returned, and a client call that was in flight when
\* the slot was closed has returned the sentinel
CleanupClosesHoldingPermitWitness ==
    /\ w.cleanups = 2
    /\ w.memCloses = 1
    /\ wc.pc = "returned"
    /\ wc.err = errSharedMemClosed
    /\ wc.args.set
    /\ hist.fnCalls > 0

\* C28: the lifecycle faults are unreachable under coordinate.  start is
\* never called while a worker is running and stop never when termC is nil;
\* a worker that is not running has no process left that was not waited
\* for, and each process that was started has been stopped at least once
\* when the worker is no longer running, in particular when coordinate
\* starts the next one or returns.
LifecycleFaultsUnreachable ==
    /\ ~(co.pc = "panic" /\ co.why \in {"worker already started",
                                        "worker was not started successfully"})
    /\ co.pc \in {"stop_ping", "stop_ctx", "stop_term", "stop_fuzz", "stop_min"}
         => w.termC # "nil"
    /\ co.pc = "ping" => (w.cmd /\ proc.stops = 0 /\ proc.state # "none")
    /\ ~w.cmd => /\ proc.state \in {"none", "waited"}
                 /\ proc.state = "waited" => proc.stops >= 1
    /\ co.pc = "returned" => ~w.cmd

\* coordinate is about to start its third process; the second one was
\* stopped and waited for
LifecycleFaultsUnreachableWitness ==
    /\ co.pc = "top"
    /\ co.starts = 2
    /\ ~w.cmd
    /\ proc.state = "waited"
    /\ proc.stops >= 1
    /\ ~ctxDone

(***************************************************************************)
(* Properties of serve.                                                    *)
(***************************************************************************)
\* C29: server exit, and cancellation inside fuzz.  When Decode fails
\* with the end of the stream or with the context's error serve returns
\* nil, and with any other error it returns that error.  Once the loop of
\* a non-warmup fuzz call has seen its context done, the fuzz function is
\* not called again, and the response has an empty Err, no coverage and
\* the count reached so far.
ServerExitAndCancellation ==
    /\ ws.decodeErr \in {"EOF", ctxErr} => (ws.pc = "exited" /\ ws.serveErr = Nil)
    /\ ws.decodeErr \notin {Nil, "EOF", ctxErr}
         => (ws.pc = "exited" /\ ws.serveErr = ws.decodeErr)
    /\ \A i \in DOMAIN hist.cancelCalls :
         /\ hist.fnCalls = hist.cancelCalls[i]
         /\ mem.count = hist.cancelCalls[i]
         /\ ws.pc = "ret" => (ws.resp.Err = "" /\ ws.resp.CoverageData = Nil
                              /\ ~ws.args.Warmup)
         /\ (ws.answered.method = "fuzz" /\ Len(fuzzOut) > 0)
              => (Head(fuzzOut).Err = "" /\ Head(fuzzOut).Count = hist.cancelCalls[i])

\* a fuzz call that was cancelled after one run has been answered
ServerExitAndCancellationWitness ==
    /\ hist.cancelCalls = <<1>>
    /\ ws.answered.method = "fuzz"
    /\ Len(fuzzOut) = 1
    /\ Head(fuzzOut).Count = 1

====
